---- MODULE Spec2Model ----
(***************************************************************************)
(* Model of the job-search assistant: the screening pipeline of            *)
(* run_job_search.py (description check, similarity score, Gemini gate,    *)
(* record cleaning, check-then-insert save) and the run guard of           *)
(* server.py (is_search_running, trigger_search, run_script_in_thread).    *)
(*                                                                         *)
(* Two programs are modelled over the same state:                          *)
(*   SpecScript  run_job_search.py executed as a script, one execution     *)
(*               after the other, statement by statement;                  *)
(*   Spec        the Flask server: concurrent requests to /run-search and  *)
(*               the worker threads they start.  A worker executes the     *)
(*               same pipeline; the statements between two accesses to     *)
(*               shared state (the flag, the jobs table) touch only the    *)
(*               thread's locals and are taken as one step.                *)
(*                                                                         *)
(* server.py calls run_job_search.main; the pipeline it runs is the main   *)
(* block of run_job_search.py (lines 127-180), which calls the functions   *)
(* defined in that file (its own run_job_scrape, not api_client's).        *)
(*                                                                         *)
(* Similarity scores are floats in the code; the model keeps them in       *)
(* hundredths (0.45 is 45).                                                *)
(***************************************************************************)
EXTENDS Integers, FiniteSets, Bags, TLC

\* ---------------------------------------------------------------- bounds
MaxRequests == 2   \* requests to /run-search (each may start one worker)
MaxSearches == 2   \* rows get_all_searches returns
MaxJobs     == 2   \* postings one scrape returns

\* ------------------------------------------------------ program constants
SIMILARITY_THRESHOLD    == 45   \* 0.45, in hundredths
GEMINI_RATING_THRESHOLD == 7

\* ------------------------------------------------------------ input values
\* What job.get("description") can be: the key is absent (None), a value
\* that is not text, the float NaN pandas uses for a missing cell, the empty
\* string, a text.
Descriptions == {"None", "number", "nan", "empty", "text"}

\* What job.get("job_url") can be: two URLs, a missing key and pandas' NaN.
Urls    == {"u1", "u2"}
RawUrls == Urls \cup {"None", "nan"}

\* What the embedding oracle does for one description: it raises, or the
\* cosine similarity it gives (hundredths).
SimValues     == {30, 44, 45, 80}
EmbedOutcomes == {[raises |-> TRUE, value |-> 0]}
                 \cup {[raises |-> FALSE, value |-> v] : v \in SimValues}

\* What the LLM oracle does for one prompt.  kind:
\*   "raise"       generate_content raises
\*   "unparsable"  the text is not JSON
\*   "null"        JSON that parses to a falsy value that is no object
\*   "list"        JSON that parses to a truthy value that is no object
\*   "object"      a JSON object; rating is "absent", "str" (not a number)
\*                 or "int" with the value in value; reason tells whether
\*                 the key ai_reason is there.
Ratings == {6, 7}
LlmObjects ==
    {[kind |-> "object", rating |-> "int", value |-> v, reason |-> b] :
        v \in Ratings, b \in BOOLEAN}
    \cup {[kind |-> "object", rating |-> r, value |-> 0, reason |-> b] :
        r \in {"absent", "str"}, b \in BOOLEAN}
LlmResponses ==
    {[kind |-> k, rating |-> "absent", value |-> 0, reason |-> FALSE] :
        k \in {"raise", "unparsable", "null", "list"}}
    \cup LlmObjects

\* No prompt was sent to the LLM oracle.
NoResponse == [kind |-> "-", rating |-> "absent", value |-> 0, reason |-> FALSE]

\* The oracle answered, and the answer is not a JSON object with an integer
\* gemini_rating and an ai_reason.
Malformed(g) ==
    \/ g.kind \in {"unparsable", "null", "list"}
    \/ g.kind = "object" /\ (g.rating # "int" \/ ~g.reason)

\* Python's None as the value of get_gemini_analysis.
NoResult == [kind |-> "None", rating |-> "absent", value |-> 0, reason |-> FALSE]

\* ------------------------------------------------------- pure functions
\* isinstance(description, str)
IsStr(d) == d \in {"empty", "text"}

\* pd.isna(description)
IsNa(d) == d \in {"None", "nan"}

\* MissingDescription with "and" written for "or".
MissingDescriptionAnd(d) == (~IsStr(d)) /\ IsNa(d)

\* The test of run_job_search.py line 148 (and of get_similarity_score):
\* not isinstance(description, str) or pd.isna(description)
MissingDescription(d) == (~IsStr(d)) \/ IsNa(d)

\* GetSimilarityScore without the guard of line 82: every description is
\* passed to model.encode.
GetSimilarityScoreNoGuard(d, e) ==
    IF e.raises
    THEN [raised |-> TRUE, value |-> 0, calls |-> 1]
    ELSE [raised |-> FALSE, value |-> e.value, calls |-> 1]

\* get_similarity_score(resume_embedding, job_description) against the
\* oracle outcome e: [raised, value, calls] where calls counts model.encode.
GetSimilarityScore(d, e) ==
    IF MissingDescription(d)
    THEN [raised |-> FALSE, value |-> 0, calls |-> 0]
    ELSE IF e.raises
         THEN [raised |-> TRUE, value |-> 0, calls |-> 1]
         ELSE [raised |-> FALSE, value |-> e.value, calls |-> 1]

\* PassesSimilarity with the comparison turned round.
PassesSimilarityInverted(score) == score <= SIMILARITY_THRESHOLD

\* similarity_score >= SIMILARITY_THRESHOLD (line 154)
PassesSimilarity(score) == score >= SIMILARITY_THRESHOLD

\* get_gemini_analysis: the parsed JSON, or None when the oracle or
\* json.loads raises.
GetGeminiAnalysis(g) ==
    IF g.kind \in {"raise", "unparsable"} THEN NoResult ELSE g

\* bool(gemini_result): None, and empty or falsy JSON values, are false.
Truthy(res) ==
    \/ res.kind = "list"
    \/ res.kind = "object" /\ (res.rating # "absent" \/ res.reason)

\* GateVerdict without the comparison with GEMINI_RATING_THRESHOLD: any
\* truthy result with a rating is saved.
GateVerdictNoThreshold(res) ==
    IF res.kind \notin {"list", "object"} THEN "skip"
    ELSE IF res.kind = "list" THEN "AttributeError"
    ELSE IF res.rating # "int" THEN "skip"
    ELSE IF ~res.reason THEN "KeyError"
    ELSE "save"

\* GateVerdict without "gemini_result and": .get is called on None.
GateVerdictNoNoneCheck(res) ==
    IF res.kind = "None" THEN "AttributeError"
    ELSE IF ~Truthy(res) THEN "skip"
    ELSE IF res.kind = "list" THEN "AttributeError"
    ELSE IF res.rating = "str" THEN "TypeError"
    ELSE IF res.rating = "absent" THEN "skip"
    ELSE IF ~(res.value >= GEMINI_RATING_THRESHOLD) THEN "skip"
    ELSE IF ~res.reason THEN "KeyError"
    ELSE "save"

\* Lines 158-166: the condition on gemini_result and the construction of
\* job_to_save.  "save", "skip", or the exception the statements raise.
GateVerdict(res) ==
    IF ~Truthy(res) THEN "skip"
    ELSE IF res.kind = "list" THEN "AttributeError"      \* list has no .get
    ELSE IF res.rating = "str" THEN "TypeError"          \* '8' >= 7
    ELSE IF res.rating = "absent" THEN "skip"            \* default 0 < 7
    ELSE IF ~(res.value >= GEMINI_RATING_THRESHOLD) THEN "skip"
    ELSE IF ~res.reason THEN "KeyError"                  \* ["ai_reason"]
    ELSE "save"

\* CleanValue replacing every float that is not finite.
CleanValueNonFinite(v) == IF v \in {"nan", "inf"} THEN "None" ELSE v

\* clean_job_data on one value: a NaN float becomes None.
CleanValue(v) == IF v = "nan" THEN "None" ELSE v

\* clean_job_data(job_to_save): the numeric fields of job_to_save passed
\* both comparisons, so only the fields copied from the posting can be NaN.
CleanJobData(rec) ==
    [job_url          |-> CleanValue(rec.job_url),
     similarity_score |-> rec.similarity_score,
     gemini_rating    |-> rec.gemini_rating]

\* The values a dict given to clean_job_data can hold, by name: the floats
\* NaN, infinity and 0.45, a text, the text "nan", and None.
DictValues == {"nan", "inf", "0.45", "text", "str_nan", "None"}
DictKeys   == {"job_url", "description", "company"}

\* The dicts clean_job_data is called with.
Dicts == UNION {[K -> DictValues] : K \in SUBSET DictKeys}

\* clean_job_data(job_dict) for any dict: the loop of lines 119-123.
CleanDict(m) == [k \in DOMAIN m |-> CleanValue(m[k])]

\* ------------------------------------------------------------------ state
SCRIPT  == 0                     \* run_job_search.py run as a script
Threads == 1 .. MaxRequests      \* worker thread started by request r
Runs    == {SCRIPT} \cup Threads

VARIABLES
    is_search_running,  \* server.py: the run guard flag
    hpc,                \* request r: position in trigger_search / response
    began,              \* request r: what it found when it read the flag
    pc,                 \* run w: position in the pipeline
    exc,                \* run w: the exception that left the main block
    searches,           \* run w: entries of all_searches not yet iterated
    jobs_found,         \* run w: entries of jobs_found not yet iterated
    search,             \* run w: the search in hand
    job,                \* run w: the posting in hand and what was done to it
    jobs,               \* the jobs table: a bag of rows
    call                \* the last direct call of a function, and its outcome

vars == <<is_search_running, hpc, began, pc, exc, searches, jobs_found, search,
          job, jobs, call>>

server_vars == <<is_search_running, hpc, began>>

\* What a row of the searches table has for a linked profile: a profile with
\* a resume context, none, or a profile whose resume_context is empty.
LinkedProfiles == {"profile", "none", "no_resume"}

\* No search in hand; scraped tells whether run_job_scrape was called for it.
NoSearch == [linked |-> "-", scraped |-> FALSE]

\* No function was called directly.
NoCall == [fn |-> "-"]

NoJob ==
    [description |-> "-", job_url |-> "-", stage |-> "-",
     similarity_score |-> 0, embed_calls |-> 0,
     gemini_calls |-> 0, llm |-> NoResponse, gemini_rating |-> 0,
     verdict |-> "-",
     record_url |-> "-",
     save_calls |-> 0, queries |-> 0, inserts |-> 0, db_error |-> FALSE]

Init ==
    /\ is_search_running = FALSE
    /\ hpc = [r \in Threads |-> "new"]
    /\ began = [r \in Threads |-> "-"]
    /\ pc = [w \in Runs |-> "none"]
    /\ exc = [w \in Runs |-> "none"]
    /\ searches = [w \in Runs |-> 0]
    /\ jobs_found = [w \in Runs |-> 0]
    /\ search = [w \in Runs |-> NoSearch]
    /\ job = [w \in Runs |-> NoJob]
    /\ jobs = EmptyBag
    /\ call = NoCall

\* The row a job_to_save record becomes in the table.
Row(j) == [job_url |-> j.job_url, similarity_score |-> j.similarity_score,
           gemini_rating |-> j.gemini_rating]

\* Exists with the query on a column that never matches a job_url.
ExistsWrongColumn(url) == \E row \in BagToSet(jobs) : row.job_url = "id"

\* supabase.table('jobs').select('id').eq('job_url', url): result.data
Exists(url) == \E row \in BagToSet(jobs) : row.job_url = url

\* ------------------------------------------------- retrieval provider
\* What scrape_jobs does for one search: it raises, or returns n postings.
ScrapeOutcomes == {[raises |-> TRUE, n |-> 0]}
                  \cup {[raises |-> FALSE, n |-> n] : n \in 0 .. MaxJobs}

\* run_job_scrape of run_job_search.py, the one the main block calls: the
\* call of scrape_jobs is not guarded, an exception leaves the function.
RunJobScrape(out) ==
    IF out.raises THEN [raised |-> TRUE, n |-> 0]
    ELSE [raised |-> FALSE, n |-> out.n]

\* run_job_scrape of api_client.py: try/except returns [] on any exception.
ApiRunJobScrape(out) ==
    IF out.raises THEN [raised |-> FALSE, n |-> 0]
    ELSE [raised |-> FALSE, n |-> out.n]

\* search_config as api_client.run_job_scrape reads it: the keys it reads
\* with a default may be absent, and so may country.
SearchConfigs ==
    [country : {"USA", "india", "absent"},
     experience_level : {"entry_level", "absent"},
     hours_old : {"48", "absent"}]

\* search_config.get(key, default)
ConfigGet(cfg, key, default) ==
    IF cfg[key] = "absent" THEN default ELSE cfg[key]

\* The keyword arguments api_client.run_job_scrape gives scrape_jobs (lines
\* 17-26): keyword name to value.
ScrapeJobsKwargs(cfg) ==
    [k \in {"site_name", "search_term", "country", "experience_level",
            "hours_old", "job_type", "results_wanted", "timeout"} |->
        CASE k = "site_name"        -> "linkedin,indeed"
          [] k = "search_term"      -> "term"
          [] k = "country"          -> ConfigGet(cfg, "country", "None")
          [] k = "experience_level" ->
                 ConfigGet(cfg, "experience_level", "entry_level")
          [] k = "hours_old"        -> ConfigGet(cfg, "hours_old", "24")
          [] k = "job_type"         -> "fulltime"
          [] k = "results_wanted"   -> "30"
          [] k = "timeout"          -> "60"]

\* api_client.run_job_scrape(search_config) against what scrape_jobs does:
\* the print of line 12 reads search_config['country'] before the try, so
\* a config without the key raises KeyError and scrape_jobs is not called;
\* otherwise scrape_jobs is called once and its exception gives [].
ApiRunJobScrapeCall(cfg, out) ==
    IF cfg.country = "absent"
    THEN [raised |-> TRUE, scrape_calls |-> 0, kwargs |-> <<>>, n |-> 0]
    ELSE [raised |-> FALSE, scrape_calls |-> 1,
          kwargs |-> ScrapeJobsKwargs(cfg), n |-> ApiRunJobScrape(out).n]

\* ------------------------------------------------------ pipeline steps
SetJob(w, j) == job' = [job EXCEPT ![w] = j]
Goto(w, p)   == pc' = [pc EXCEPT ![w] = p]

\* An exception leaves the main block: nothing in it catches.
Raise(w, e) ==
    /\ pc' = [pc EXCEPT ![w] = "end"]
    /\ exc' = [exc EXCEPT ![w] = e]

\* Lines 127-140: the profile and the searches are fetched (both fetchers
\* catch and return None / []); the block halts without either, otherwise
\* it encodes the resume.
Main(w) ==
    /\ pc[w] = "main"
    /\ \E profile \in BOOLEAN, n \in 0 .. MaxSearches, encode_ok \in BOOLEAN :
          IF (~profile) \/ n = 0
          THEN /\ Goto(w, "end")
               /\ UNCHANGED <<exc, searches>>
          ELSE IF ~encode_ok
               THEN /\ Raise(w, "encode_resume")
                    /\ UNCHANGED searches
               ELSE /\ Goto(w, "for_search")
                    /\ searches' = [searches EXCEPT ![w] = n]
                    /\ UNCHANGED exc
    /\ UNCHANGED <<server_vars, jobs_found, job, jobs, search, call>>

\* Lines 142-143: for search in all_searches: jobs_found = run_job_scrape(search)
ForSearch(w) ==
    /\ pc[w] = "for_search"
    /\ IF searches[w] = 0
       THEN /\ Goto(w, "end")
            /\ UNCHANGED <<exc, searches, jobs_found, search>>
       ELSE \E out \in ScrapeOutcomes, linked \in LinkedProfiles :
              LET r == RunJobScrape(out) IN
              /\ searches' = [searches EXCEPT ![w] = @ - 1]
              /\ search' = [search EXCEPT ![w] =
                                [linked |-> linked, scraped |-> TRUE]]
              /\ IF r.raised
                 THEN /\ Raise(w, "scrape")
                      /\ UNCHANGED jobs_found
                 ELSE /\ Goto(w, "for_job")
                      /\ jobs_found' = [jobs_found EXCEPT ![w] = r.n]
                      /\ UNCHANGED exc
    /\ UNCHANGED <<server_vars, job, jobs, call>>

\* Line 144: for job in jobs_found
ForJob(w) ==
    /\ pc[w] = "for_job"
    /\ IF jobs_found[w] = 0
       THEN /\ Goto(w, "for_search")
            /\ UNCHANGED <<jobs_found, job>>
       ELSE \E d \in Descriptions, u \in RawUrls :
              /\ jobs_found' = [jobs_found EXCEPT ![w] = @ - 1]
              /\ SetJob(w, [NoJob EXCEPT !.description = d, !.job_url = u,
                                         !.stage = "Fetched"])
              /\ Goto(w, "description")
    /\ UNCHANGED <<server_vars, exc, searches, jobs, search, call>>

\* CheckDescription with the existence query made first: a posting whose
\* job_url the table holds is skipped before it is scored.
CheckDescriptionDedupFirst(w) ==
    /\ pc[w] = "description"
    /\ IF Exists(job[w].job_url)
       THEN /\ SetJob(w, [job[w] EXCEPT !.queries = @ + 1,
                                        !.stage = "Skipped"])
            /\ Goto(w, "for_job")
       ELSE IF MissingDescription(job[w].description)
            THEN /\ SetJob(w, [job[w] EXCEPT !.stage = "Skipped"])
                 /\ Goto(w, "for_job")
            ELSE /\ SetJob(w, [job[w] EXCEPT !.stage = "DescriptionChecked"])
                 /\ Goto(w, "similarity")
    /\ UNCHANGED <<server_vars, exc, searches, jobs_found, jobs, search, call>>

\* Lines 147-150: the description check.
CheckDescription(w) ==
    /\ pc[w] = "description"
    /\ IF MissingDescription(job[w].description)
       THEN /\ SetJob(w, [job[w] EXCEPT !.stage = "Skipped"])
            /\ Goto(w, "for_job")
       ELSE /\ SetJob(w, [job[w] EXCEPT !.stage = "DescriptionChecked"])
            /\ Goto(w, "similarity")
    /\ UNCHANGED <<server_vars, exc, searches, jobs_found, jobs, search, call>>

\* Lines 152-154 (and 176-177): the similarity score and its threshold.
Similarity(w) ==
    /\ pc[w] = "similarity"
    /\ \E e \in EmbedOutcomes :
          LET s == GetSimilarityScore(job[w].description, e) IN
          IF s.raised
          THEN /\ SetJob(w, [job[w] EXCEPT !.embed_calls = @ + s.calls])
               /\ Raise(w, "encode_job")
          ELSE /\ UNCHANGED exc
               /\ IF PassesSimilarity(s.value)
                  THEN /\ SetJob(w, [job[w] EXCEPT
                                !.embed_calls = @ + s.calls,
                                !.similarity_score = s.value,
                                !.stage = "SimilarityChecked"])
                       /\ Goto(w, "gate")
                  ELSE /\ SetJob(w, [job[w] EXCEPT
                                !.embed_calls = @ + s.calls,
                                !.similarity_score = s.value,
                                !.stage = "Skipped"])
                       /\ Goto(w, "for_job")
    /\ UNCHANGED <<server_vars, searches, jobs_found, jobs, search, call>>

\* Lines 156-175: the Gemini call, the rating test, job_to_save and
\* clean_job_data.
Gate(w) ==
    /\ pc[w] = "gate"
    /\ \E g \in LlmResponses :
          LET res == GetGeminiAnalysis(g)
              v   == GateVerdict(res)
              j   == [job[w] EXCEPT !.gemini_calls = @ + 1, !.llm = g,
                                    !.verdict = v]
              rec == CleanJobData([job_url |-> j.job_url,
                                   similarity_score |-> j.similarity_score,
                                   gemini_rating |-> res.value])
          IN
          CASE v = "save" ->
                 /\ SetJob(w, [j EXCEPT !.stage = "GateChecked",
                                        !.gemini_rating = rec.gemini_rating,
                                        !.record_url = rec.job_url])
                 /\ Goto(w, "save")
                 /\ UNCHANGED exc
            [] v = "skip" ->
                 /\ SetJob(w, [j EXCEPT !.stage = "Skipped"])
                 /\ Goto(w, "for_job")
                 /\ UNCHANGED exc
            [] OTHER ->
                 /\ SetJob(w, j)
                 /\ Raise(w, v)
    /\ UNCHANGED <<server_vars, searches, jobs_found, jobs, search, call>>

\* HasUrl without the test of line 101.
HasUrlAlways(url) == TRUE

\* save_job_to_db, line 101: "if not job_url" is false.
HasUrl(url) == url # "None"

\* save_job_to_db returns to the loop that called it.  The script keeps the
\* posting in hand (what was done to it) until it takes the next one; a
\* worker thread's step keeps nothing of it.
Return(w, j) ==
    IF w = SCRIPT
    THEN /\ SetJob(w, j)
         /\ Goto(w, "for_job")
    ELSE /\ SetJob(w, NoJob)
         /\ Goto(w, "running")

\* SaveCheck without the return of line 108: a row was found and the
\* function goes on to the insert.
SaveCheckNoReturn(w) ==
    /\ pc[w] = "save"
    /\ IF ~HasUrl(job[w].record_url)
       THEN Return(w, [job[w] EXCEPT !.save_calls = @ + 1,
                                     !.stage = "Skipped"])
       ELSE \E err \in BOOLEAN :
              LET j == [job[w] EXCEPT !.save_calls = @ + 1,
                                      !.queries = @ + 1] IN
              IF err
              THEN Return(w, [j EXCEPT !.db_error = TRUE,
                                       !.stage = "Skipped"])
              ELSE IF Exists(job[w].record_url)
                   THEN /\ SetJob(w, [j EXCEPT !.stage = "Skipped"])
                        /\ Goto(w, "insert")
                   ELSE /\ SetJob(w, j)
                        /\ Goto(w, "insert")
    /\ UNCHANGED <<server_vars, exc, searches, jobs_found, jobs, search, call>>

\* save_job_to_db up to the insert (lines 98-108): the job_url test and the
\* existence query; a store error is caught and the function returns.
SaveCheck(w) ==
    /\ pc[w] = "save"
    /\ IF ~HasUrl(job[w].record_url)
       THEN Return(w, [job[w] EXCEPT !.save_calls = @ + 1,
                                     !.stage = "Skipped"])
       ELSE \E err \in BOOLEAN :
              LET j == [job[w] EXCEPT !.save_calls = @ + 1,
                                      !.queries = @ + 1] IN
              IF err
              THEN Return(w, [j EXCEPT !.db_error = TRUE,
                                       !.stage = "Skipped"])
              ELSE IF Exists(job[w].record_url)
                   THEN Return(w, [j EXCEPT !.stage = "Skipped"])
                   ELSE /\ SetJob(w, j)
                        /\ Goto(w, "insert")
    /\ UNCHANGED <<server_vars, exc, searches, jobs_found, jobs, search, call>>

\* SaveInsert without the except clause of line 113: the store's error
\* leaves save_job_to_db and the main block.
SaveInsertNoCatch(w) ==
    /\ pc[w] = "insert"
    /\ \E err \in BOOLEAN :
          IF err
          THEN /\ SetJob(w, [job[w] EXCEPT !.db_error = TRUE,
                                           !.stage = "Skipped"])
               /\ Raise(w, "db")
               /\ UNCHANGED jobs
          ELSE /\ Return(w, [job[w] EXCEPT !.inserts = @ + 1,
                                           !.stage = "Persisted"])
               /\ jobs' = jobs (+) SetToBag({Row([job_url |-> job[w].record_url,
                              similarity_score |-> job[w].similarity_score,
                              gemini_rating |-> job[w].gemini_rating])})
               /\ UNCHANGED exc
    /\ UNCHANGED <<server_vars, searches, jobs_found, search, call>>

\* save_job_to_db, the insert (lines 110-114).
SaveInsert(w) ==
    /\ pc[w] = "insert"
    /\ \E err \in BOOLEAN :
          IF err
          THEN /\ Return(w, [job[w] EXCEPT !.db_error = TRUE,
                                           !.stage = "Skipped"])
               /\ UNCHANGED jobs
          ELSE /\ Return(w, [job[w] EXCEPT !.inserts = @ + 1,
                                           !.stage = "Persisted"])
               /\ jobs' = jobs (+) SetToBag({Row([job_url |-> job[w].record_url,
                              similarity_score |-> job[w].similarity_score,
                              gemini_rating |-> job[w].gemini_rating])})
    /\ UNCHANGED <<server_vars, exc, searches, jobs_found, search, call>>

\* The stage of a posting goes from s to t: one step forward, or out to
\* Skipped at one of the checkpoints (lines 148, 154, 158, 101-108, 113).
StageStep(s, t) ==
    \/ s = "Fetched"            /\ t \in {"DescriptionChecked", "Skipped"}
    \/ s = "DescriptionChecked" /\ t \in {"SimilarityChecked", "Skipped"}
    \/ s = "SimilarityChecked"  /\ t \in {"GateChecked", "Skipped"}
    \/ s = "GateChecked"        /\ t \in {"Persisted", "Skipped"}

\* ------------------------------------------- run_job_search.py as a script
\* python run_job_search.py: a new process starts the main block.
ScriptStart ==
    /\ pc[SCRIPT] = "none"
    /\ pc' = [pc EXCEPT ![SCRIPT] = "main"]
    /\ exc' = [exc EXCEPT ![SCRIPT] = "none"]
    /\ searches' = [searches EXCEPT ![SCRIPT] = 0]
    /\ jobs_found' = [jobs_found EXCEPT ![SCRIPT] = 0]
    /\ search' = [search EXCEPT ![SCRIPT] = NoSearch]
    /\ job' = [job EXCEPT ![SCRIPT] = NoJob]
    /\ UNCHANGED <<server_vars, jobs, call>>

\* The process ends: the main block finished (line 180) or an exception
\* left it.
ScriptExit ==
    /\ pc[SCRIPT] = "end"
    /\ pc' = [pc EXCEPT ![SCRIPT] = "none"]
    /\ UNCHANGED <<server_vars, exc, searches, jobs_found, job, jobs, search,
                 call>>

NextScript ==
    \/ ScriptStart
    \/ Main(SCRIPT)
    \/ ForSearch(SCRIPT)
    \/ ForJob(SCRIPT)
    \/ CheckDescription(SCRIPT)
    \/ Similarity(SCRIPT)
    \/ Gate(SCRIPT)
    \/ SaveCheck(SCRIPT)
    \/ SaveInsert(SCRIPT)
    \/ ScriptExit

SpecScript == Init /\ [][NextScript]_vars

\* ------------------------------------------------------------ server.py
\* No job_to_save was built.
NoRecord == [job_url |-> "-", similarity_score |-> 0, gemini_rating |-> 0]

\* What lines 147-172 do with one posting, as one function of the posting
\* and of what the two oracles answer: the verdict ("skip", "save" or the
\* exception raised) and the cleaned job_to_save.
ScreenPosting(d, u, e, g) ==
    LET s   == GetSimilarityScore(d, e)
        res == GetGeminiAnalysis(g)
        v   == IF MissingDescription(d) THEN "skip"
               ELSE IF s.raised THEN "encode_job"
               ELSE IF ~PassesSimilarity(s.value) THEN "skip"
               ELSE GateVerdict(res)
    IN  IF v = "save"
        THEN [verdict |-> v,
              record  |-> CleanJobData([job_url |-> u,
                                        similarity_score |-> s.value,
                                        gemini_rating |-> res.value])]
        ELSE [verdict |-> v, record |-> NoRecord]

\* Every way one posting can fare.
ScreenOutcomes ==
    {ScreenPosting(d, u, e, g) :
        d \in Descriptions, u \in RawUrls, e \in EmbedOutcomes, g \in LlmResponses}

\* What the request found when it read the flag: a worker was executing
\* ("during"), none was but one had finished ("after"), or none ever ran.
Active(w)  == pc[w] \notin {"none", "done"}
Situation ==
    IF \E w \in Threads : Active(w) THEN "during"
    ELSE IF \E w \in Threads : pc[w] = "done" THEN "after"
    ELSE "fresh"

\* TriggerRead without the test of the flag.
TriggerReadNoGuard(r) ==
    /\ hpc[r] = "new"
    /\ began' = [began EXCEPT ![r] = Situation]
    /\ hpc' = [hpc EXCEPT ![r] = "set"]
    /\ UNCHANGED <<is_search_running, pc, exc, searches, jobs_found, job,
                 jobs, search, call>>

\* trigger_search, lines 39-41: the flag is read; a set flag answers 409.
TriggerRead(r) ==
    /\ hpc[r] = "new"
    /\ began' = [began EXCEPT ![r] = Situation]
    /\ IF is_search_running
       THEN hpc' = [hpc EXCEPT ![r] = "409"]
       ELSE hpc' = [hpc EXCEPT ![r] = "set"]
    /\ UNCHANGED <<is_search_running, pc, exc, searches, jobs_found, job,
                 jobs, search, call>>

\* trigger_search, line 44: is_search_running = True
TriggerSet(r) ==
    /\ hpc[r] = "set"
    /\ is_search_running' = TRUE
    /\ hpc' = [hpc EXCEPT ![r] = "start"]
    /\ UNCHANGED <<began, pc, exc, searches, jobs_found, job, jobs, search,
                 call>>

\* trigger_search, lines 46-49: the thread is started and 202 returned; when
\* threading cannot start a thread, start() raises and Flask answers 500.
TriggerStart(r) ==
    /\ hpc[r] = "start"
    /\ \E started \in BOOLEAN :
          IF started
          THEN /\ hpc' = [hpc EXCEPT ![r] = "202"]
               /\ pc' = [pc EXCEPT ![r] = "main"]
          ELSE /\ hpc' = [hpc EXCEPT ![r] = "500"]
               /\ UNCHANGED pc
    /\ UNCHANGED <<is_search_running, began, exc, searches, jobs_found, job,
                 jobs, search, call>>

\* run_script_in_thread, lines 24-26, the worker enters the main block
\* (run_job_search.py lines 127-137).
ThreadMain(w) ==
    /\ pc[w] = "main"
    /\ \E profile \in BOOLEAN, n \in 0 .. MaxSearches, encode_ok \in BOOLEAN :
          IF (~profile) \/ n = 0
          THEN /\ Goto(w, "end")
               /\ UNCHANGED exc
          ELSE IF ~encode_ok
               THEN Raise(w, "encode_resume")
               ELSE /\ Goto(w, "running")
                    /\ UNCHANGED exc
    /\ UNCHANGED <<server_vars, searches, jobs_found, job, jobs, search, call>>

\* The worker inside the loops of run_job_search.py (lines 142-178), up to
\* its next access to the jobs table: the loops end, a scrape raises, or a
\* posting is screened and skipped, raises, or reaches save_job_to_db.
ThreadRun(w) ==
    /\ pc[w] = "running"
    /\ \/ /\ Goto(w, "end")
          /\ UNCHANGED <<exc, job>>
       \/ /\ \E out \in ScrapeOutcomes : RunJobScrape(out).raised
          /\ Raise(w, "scrape")
          /\ UNCHANGED job
       \/ \E out \in ScreenOutcomes :
             CASE out.verdict = "save" ->
                    /\ SetJob(w, [NoJob EXCEPT
                          !.record_url = out.record.job_url,
                          !.similarity_score = out.record.similarity_score,
                          !.gemini_rating = out.record.gemini_rating])
                    /\ Goto(w, "save")
                    /\ UNCHANGED exc
               [] out.verdict = "skip" ->
                    UNCHANGED <<pc, exc, job>>
               [] OTHER ->
                    /\ Raise(w, out.verdict)
                    /\ UNCHANGED job
    /\ UNCHANGED <<server_vars, searches, jobs_found, jobs, search, call>>

\* Finally with the reset of the flag after the call instead of in a finally
\* clause: an exception skips it.
FinallyOnlyOnReturn(w) ==
    /\ pc[w] = "end"
    /\ is_search_running' = (IF exc[w] = "none" THEN FALSE ELSE is_search_running)
    /\ pc' = [pc EXCEPT ![w] = "done"]
    /\ exc' = [exc EXCEPT ![w] = IF @ = "none" THEN "none" ELSE "caught"]
    /\ UNCHANGED <<hpc, began, searches, jobs_found, job, jobs, search, call>>

\* run_script_in_thread, lines 27-32: except Exception catches whatever left
\* the script ("caught"), and finally clears the flag.
Finally(w) ==
    /\ pc[w] = "end"
    /\ is_search_running' = FALSE
    /\ pc' = [pc EXCEPT ![w] = "done"]
    /\ exc' = [exc EXCEPT ![w] = IF @ = "none" THEN "none" ELSE "caught"]
    /\ UNCHANGED <<hpc, began, searches, jobs_found, job, jobs, search, call>>

Next ==
    \/ \E r \in Threads : TriggerRead(r)
    \/ \E r \in Threads : TriggerSet(r)
    \/ \E r \in Threads : TriggerStart(r)
    \/ \E w \in Threads : ThreadMain(w)
    \/ \E w \in Threads : ThreadRun(w)
    \/ \E w \in Threads : SaveCheck(w)
    \/ \E w \in Threads : SaveInsert(w)
    \/ \E w \in Threads : Finally(w)

Spec == Init /\ [][Next]_vars

\* ------------------------------------------------ functions called alone
\* get_similarity_score called with any description.
CallGetSimilarityScore ==
    /\ \E d \in Descriptions, e \in EmbedOutcomes :
          call' = [fn |-> "get_similarity_score", description |-> d,
                   result |-> GetSimilarityScore(d, e)]
    /\ UNCHANGED <<server_vars, pc, exc, searches, jobs_found, search, job,
                   jobs>>

\* clean_job_data called with any dict.
CallCleanJobData ==
    /\ \E m \in Dicts :
          call' = [fn |-> "clean_job_data", job_dict |-> m, raised |-> FALSE,
                   result |-> CleanDict(m)]
    /\ UNCHANGED <<server_vars, pc, exc, searches, jobs_found, search, job,
                   jobs>>

\* api_client.run_job_scrape called with any search configuration.
CallApiRunJobScrape ==
    /\ \E cfg \in SearchConfigs, out \in ScrapeOutcomes :
          call' = [fn |-> "run_job_scrape", search_config |-> cfg,
                   result |-> ApiRunJobScrapeCall(cfg, out)]
    /\ UNCHANGED <<server_vars, pc, exc, searches, jobs_found, search, job,
                   jobs>>

NextUnit ==
    \/ CallGetSimilarityScore
    \/ CallCleanJobData
    \/ CallApiRunJobScrape

SpecUnit == Init /\ [][NextUnit]_vars

\* ------------------------------------------------------------ observers
\* The worker is inside run_job_search_script().
Executing(w) == pc[w] \in {"main", "running", "save", "insert"}

\* Rows of the table b whose job_url is u, copies counted.
RowsWithUrl(u, b) ==
    Cardinality(UNION {{<<row, i>> : i \in 1 .. CopiesIn(row, b)} :
                          row \in {x \in BagToSet(b) : x.job_url = u}})

\* ------------------------------------------------------------------- C1
\* C1: under every interleaving of concurrent trigger_search calls at most
\* one orchestrator run is executing at any time.
C1_AtMostOneRunExecuting ==
    Cardinality({w \in Threads : Executing(w)}) <= 1

\* ------------------------------------------------------------------- C2
\* A request answers for the set flag: it has set it and not yet started
\* its thread (or failed to), or its worker has not finished.
Owns(r) ==
    \/ hpc[r] \in {"start", "500"}
    \/ hpc[r] = "202" /\ pc[r] # "done"

\* C2: whether the orchestrator returns or raises, the step that ends a run
\* clears the flag; the flag is never set without a request that owns it (no
\* ended run leaves it set); and a trigger that reads the flag clear is not
\* rejected.
C2_FlagClearedWhenRunEnds ==
    [][ /\ \A w \in Threads :
              (pc[w] # "done" /\ pc'[w] = "done") => ~is_search_running'
        /\ is_search_running' => \E r \in Threads : Owns(r)'
        /\ \A r \in Threads :
              (hpc[r] = "new" /\ hpc'[r] # "new" /\ ~is_search_running)
                 => hpc'[r] = "set"
      ]_vars

\* A run ended on an exception, and a trigger that came when no run was
\* executing any more was accepted.
C2_Witness ==
    \E w, r \in Threads :
        /\ w # r
        /\ pc[w] = "done" /\ exc[w] = "caught"
        /\ began[r] = "after" /\ hpc[r] = "202"

\* ------------------------------------------------------------------- C3
\* C3: a trigger that reads the flag set answers 409, starts no worker and
\* leaves the flag set; a rejected request never has a worker.
C3_RejectedWhileRunning ==
    [][ /\ \A r \in Threads :
              (hpc[r] = "new" /\ hpc'[r] # "new" /\ is_search_running)
                 => /\ hpc'[r] = "409"
                    /\ is_search_running'
                    /\ pc' = pc
        /\ \A r \in Threads : hpc'[r] = "409" => pc'[r] = "none"
      ]_vars

\* Two triggers during one run: the first was accepted and its run is still
\* executing, the second was rejected.
C3_Witness ==
    \E a, r \in Threads :
        /\ hpc[a] = "202" /\ Executing(a)
        /\ hpc[r] = "409" /\ began[r] = "during"
        /\ is_search_running

\* ------------------------------------------------------------------- C4
\* C4: every posting handed to save_job_to_db, and every row of the jobs
\* table, has similarity_score >= 0.45 and gemini_rating >= 7, and came from
\* a gate result that was not null.
C4_PersistedPassedBothFilters ==
    /\ \A w \in Runs :
          (pc[w] \in {"save", "insert"} \/ job[w].save_calls > 0)
             => /\ job[w].similarity_score >= 45
                /\ job[w].gemini_rating >= 7
                /\ job[w].gemini_calls = 1
                /\ job[w].verdict = "save"
    /\ \A row \in BagToSet(jobs) :
          row.similarity_score >= 45 /\ row.gemini_rating >= 7

\* A posting was inserted.
C4_Witness ==
    /\ job[SCRIPT].stage = "Persisted"
    /\ job[SCRIPT].inserts = 1
    /\ RowsWithUrl(job[SCRIPT].record_url, jobs) = 1

\* ------------------------------------------------------------------- C5
\* C5: the Gemini gate is called for a posting only after its similarity
\* was computed and only if it reached 0.45.
C5_GateOnlyAfterSimilarityPassed ==
    \A w \in Runs :
        /\ (pc[w] = "gate" \/ job[w].gemini_calls > 0)
              => job[w].embed_calls = 1 /\ job[w].similarity_score >= 45
        /\ (job[w].embed_calls = 1 /\ job[w].similarity_score < 45)
              => job[w].gemini_calls = 0 /\ pc[w] # "gate"

\* A posting was scored below the threshold and skipped.
C5_Witness ==
    /\ job[SCRIPT].stage = "Skipped"
    /\ job[SCRIPT].embed_calls = 1
    /\ job[SCRIPT].similarity_score = 30
    /\ job[SCRIPT].gemini_calls = 0

\* ------------------------------------------------------------------- C6
\* C6: for a description that is absent, not text or NaN, the similarity
\* score is 0.0 (no embedding call), and neither the gate nor
\* save_job_to_db is called for the posting.
C6_MissingDescriptionNeverScreened ==
    /\ \A d \in {"None", "number", "nan"}, e \in EmbedOutcomes :
          GetSimilarityScore(d, e) = [raised |-> FALSE, value |-> 0, calls |-> 0]
    /\ \A w \in Runs :
          job[w].description \in {"None", "number", "nan"}
             => /\ job[w].embed_calls = 0
                /\ job[w].gemini_calls = 0
                /\ job[w].save_calls = 0
                /\ pc[w] \notin {"similarity", "gate", "save", "insert"}

\* A posting without a usable description was skipped.
C6_Witness ==
    /\ job[SCRIPT].description \in {"None", "number", "nan"}
    /\ job[SCRIPT].stage = "Skipped"
    /\ pc[SCRIPT] = "for_job"

\* ------------------------------------------------------------------- C7
\* C7: in every reachable state of the server the jobs table holds at most
\* one row per job_url.
C7_OneRowPerUrl ==
    \A u \in Urls : RowsWithUrl(u, jobs) <= 1

\* ------------------------------------------------------------------- C8
\* C8: save_job_to_db called with a job_url that the table already holds
\* (no store error) finds the row, does not insert and leaves the table
\* unchanged, with exactly one row of that job_url.
C8_SaveIsIdempotent ==
    [][ \A w \in Runs :
          (/\ pc[w] = "save"
           /\ pc'[w] # "save"
           /\ job[w].record_url \in Urls
           /\ RowsWithUrl(job[w].record_url, jobs) > 0
           /\ ~job'[w].db_error)
             => /\ pc'[w] = "for_job"
                /\ job'[w].queries = 1
                /\ job'[w].inserts = 0
                /\ jobs' = jobs
                /\ RowsWithUrl(job[w].record_url, jobs') = 1
      ]_vars

\* The second save of a job_url was skipped as a duplicate.
C8_Witness ==
    /\ job[SCRIPT].save_calls = 1
    /\ job[SCRIPT].queries = 1
    /\ job[SCRIPT].inserts = 0
    /\ ~job[SCRIPT].db_error
    /\ job[SCRIPT].stage = "Skipped"
    /\ RowsWithUrl(job[SCRIPT].record_url, jobs) = 1

\* ------------------------------------------------------------------- C9
\* C9: an exception of the retrieval provider does not end the run while
\* searches remain: the search counts as empty and the next is retrieved.
C9_ScrapeErrorDoesNotEndRun ==
    \A w \in Runs : ~(exc[w] = "scrape" /\ searches[w] > 0)

\* ------------------------------------------------------------------ C10
\* C10: a failure of the embedding oracle while a posting is scored does not
\* end the run while postings or searches remain.
C10_EmbedErrorDoesNotEndRun ==
    \A w \in Runs :
        ~(exc[w] = "encode_job" /\ (jobs_found[w] > 0 \/ searches[w] > 0))

\* ------------------------------------------------------------------ C11
\* C11: when the LLM oracle's output is malformed (not JSON, JSON that is no
\* object, an object without gemini_rating or ai_reason or with a rating
\* that is no integer), the gate step skips the posting, persists nothing,
\* raises nothing and the loop goes on with the next posting.
C11_MalformedOutputIsARejection ==
    [][ \A w \in Runs :
          (pc[w] = "gate" /\ pc'[w] # "gate" /\ Malformed(job'[w].llm))
             => /\ job'[w].stage = "Skipped"
                /\ pc'[w] = "for_job"
                /\ exc'[w] = "none"
                /\ jobs' = jobs
      ]_vars

\* ------------------------------------------------------------------ C12
\* C12: when the LLM oracle raises for a posting, the gate step skips that
\* posting without a save, no exception leaves the main block, and the
\* postings and searches that remain, and the table, are what they were:
\* the loop goes on with the next posting.
C12_OracleExceptionSkipsPosting ==
    [][ \A w \in Runs :
          (pc[w] = "gate" /\ pc'[w] # "gate" /\ job'[w].llm.kind = "raise")
             => /\ job'[w].stage = "Skipped"
                /\ job'[w].verdict = "skip"
                /\ job'[w].save_calls = 0
                /\ pc'[w] = "for_job"
                /\ exc'[w] = exc[w]
                /\ jobs_found'[w] = jobs_found[w]
                /\ searches'[w] = searches[w]
                /\ jobs' = jobs
      ]_vars

\* The oracle raised for a posting while another posting of the search
\* remained, and the loop is about to take it.
C12_Witness ==
    /\ job[SCRIPT].llm.kind = "raise"
    /\ job[SCRIPT].stage = "Skipped"
    /\ pc[SCRIPT] = "for_job"
    /\ exc[SCRIPT] = "none"
    /\ jobs_found[SCRIPT] > 0

\* ------------------------------------------------------------------ C13
\* C13: when the store raises during the existence query or the insert,
\* save_job_to_db inserts nothing for the record and returns: the table is
\* unchanged, no exception leaves the main block, and the loop goes on with
\* the postings and searches that remain.
C13_StoreErrorIsCaught ==
    [][ \A w \in Runs :
          (pc[w] \in {"save", "insert"} /\ job'[w].db_error)
             => /\ jobs' = jobs
                /\ job'[w].inserts = 0
                /\ pc'[w] = "for_job"
                /\ exc'[w] = exc[w]
                /\ jobs_found'[w] = jobs_found[w]
                /\ searches'[w] = searches[w]
      ]_vars

\* The insert of a record failed while a posting remained, and the loop is
\* about to take it.
C13_Witness ==
    /\ job[SCRIPT].db_error
    /\ job[SCRIPT].queries = 1
    /\ job[SCRIPT].inserts = 0
    /\ pc[SCRIPT] = "for_job"
    /\ exc[SCRIPT] = "none"
    /\ jobs_found[SCRIPT] > 0

\* ------------------------------------------------------------------ C14
\* C14: run_job_scrape is never called for a search that has no linked
\* profile or whose profile has no resume context.
C14_SearchWithoutProfileNotScraped ==
    \A w \in Runs : ~(search[w].linked \in {"none", "no_resume"}
                        /\ search[w].scraped)

\* ------------------------------------------------------------------ C15
\* C15: the stage of the posting in hand changes only by one step forward
\* along Fetched, DescriptionChecked, SimilarityChecked, GateChecked,
\* Persisted, or from one of the first four to Skipped; Persisted and
\* Skipped are left only when the loop takes the next posting; and a
\* posting that becomes Persisted had a text description, one similarity
\* score at or above the threshold, one gate verdict "save" and one
\* existence query.
C15_StagesOnlyForward ==
    [][ \A w \in Runs :
          /\ job'[w].stage # job[w].stage
                => IF pc[w] \in {"none", "for_job"}
                   THEN job'[w].stage \in {"-", "Fetched"}
                   ELSE StageStep(job[w].stage, job'[w].stage)
          /\ (job'[w].stage = "Persisted" /\ job[w].stage # "Persisted")
                => /\ ~MissingDescription(job'[w].description)
                   /\ job'[w].embed_calls = 1
                   /\ PassesSimilarity(job'[w].similarity_score)
                   /\ job'[w].gemini_calls = 1
                   /\ job'[w].verdict = "save"
                   /\ job'[w].queries = 1
      ]_vars

\* A posting went through every checkpoint to Persisted and the loop is
\* about to take the next one.
C15_Witness ==
    /\ job[SCRIPT].stage = "Persisted"
    /\ job[SCRIPT].embed_calls = 1
    /\ job[SCRIPT].gemini_calls = 1
    /\ job[SCRIPT].queries = 1
    /\ pc[SCRIPT] = "for_job"
    /\ jobs_found[SCRIPT] > 0

\* ------------------------------------------------------------------ C17
\* C17: save_job_to_db called with a record whose job_url is None queries
\* nothing, inserts nothing, leaves the table unchanged and returns without
\* an exception.
C17_SaveWithoutUrlIsNoOp ==
    [][ \A w \in Runs :
          (pc[w] = "save" /\ pc'[w] # "save" /\ job[w].record_url = "None")
             => /\ jobs' = jobs
                /\ job'[w].save_calls = 1
                /\ job'[w].queries = 0
                /\ job'[w].inserts = 0
                /\ ~job'[w].db_error
                /\ pc'[w] = "for_job"
                /\ exc'[w] = exc[w]
      ]_vars

\* save_job_to_db returned for a record without job_url.
C17_Witness ==
    /\ job[SCRIPT].record_url = "None"
    /\ job[SCRIPT].save_calls = 1
    /\ job[SCRIPT].queries = 0
    /\ job[SCRIPT].stage = "Skipped"
    /\ pc[SCRIPT] = "for_job"

\* ------------------------------------------------------------------ C16
\* C16 as stated: get_similarity_score returns 0.0 without a call of
\* model.encode for every description that is not a non-empty text: None,
\* a value that is no text, NaN, and the empty string.
C16_ZeroForEveryNonText ==
    (call.fn = "get_similarity_score"
       /\ call.description \in {"None", "number", "nan", "empty"})
      => /\ ~call.result.raised
         /\ call.result.value = 0
         /\ call.result.calls = 0

\* C16, amended: get_similarity_score returns 0.0 without a call of
\* model.encode for every description that is None, no text or NaN; the
\* empty string is a text and is passed to model.encode once like any other.
C16_ZeroForMissingDescription ==
    /\ (call.fn = "get_similarity_score"
          /\ call.description \in {"None", "number", "nan"})
         => /\ ~call.result.raised
            /\ call.result.value = 0
            /\ call.result.calls = 0
    /\ (call.fn = "get_similarity_score"
          /\ call.description \in {"empty", "text"})
         => call.result.calls = 1

\* get_similarity_score was called with NaN and returned 0.0.
C16_Witness ==
    /\ call.fn = "get_similarity_score"
    /\ call.description = "nan"
    /\ call.result.value = 0
    /\ call.result.calls = 0

\* ------------------------------------------------------------------ C18
\* C18: clean_job_data returns a dict with the keys of its argument in which
\* every NaN float is None and every other value is the argument's value;
\* it does not raise, and cleaning the result again changes nothing.
C18_CleanReplacesOnlyNaN ==
    call.fn = "clean_job_data"
      => /\ ~call.raised
         /\ DOMAIN call.result = DOMAIN call.job_dict
         /\ \A k \in DOMAIN call.job_dict :
               call.result[k] = IF call.job_dict[k] = "nan" THEN "None"
                                ELSE call.job_dict[k]
         /\ CleanDict(call.result) = call.result

\* clean_job_data was called with a dict that holds a NaN, an infinite
\* float and a text.
C18_Witness ==
    /\ call.fn = "clean_job_data"
    /\ DOMAIN call.job_dict = DictKeys
    /\ call.job_dict["job_url"] = "nan"
    /\ call.job_dict["description"] = "text"
    /\ call.job_dict["company"] = "inf"
    /\ call.result["job_url"] = "None"
    /\ call.result["company"] = "inf"

\* ------------------------------------------------------------------ C19
\* C19: api_client.run_job_scrape calls scrape_jobs exactly once for every
\* search configuration, with the configuration's country under the keyword
\* country_indeed and with no keyword country.
C19_CountryIndeedKeyword ==
    call.fn = "run_job_scrape"
      => /\ call.result.scrape_calls = 1
         /\ "country_indeed" \in DOMAIN call.result.kwargs
         /\ call.result.kwargs["country_indeed"] = call.search_config.country
         /\ "country" \notin DOMAIN call.result.kwargs

\* ------------------------------------------------------------------ C20
\* C20: whenever is_search_running is set, a request has set it and is about
\* to start its worker, or a started worker has not yet finished: the flag
\* is never set with no run behind it, also when threading.Thread.start
\* fails after trigger_search has set the flag.
C20_FlagSetOnlyWithRunBehindIt ==
    is_search_running
      => \E r \in Threads :
            \/ hpc[r] = "start"
            \/ hpc[r] = "202" /\ pc[r] # "done"

\* ------------------------------------------------------------------ C21
\* C21: the existence query for a posting's job_url is made only by
\* save_job_to_db, after the posting got one similarity score at or above
\* the threshold and one gate verdict "save"; the steps before it make no
\* query and do not depend on the table, so a posting whose job_url the
\* table already holds goes through the description check, the embedding
\* call and the LLM call like any other, and is skipped as a duplicate only
\* by the query.
C21_ExistenceCheckAfterBothFilters ==
    [][ \A w \in Runs :
          /\ job'[w].queries > job[w].queries
                => /\ pc[w] = "save"
                   /\ job[w].stage = "GateChecked"
                   /\ job[w].embed_calls = 1
                   /\ PassesSimilarity(job[w].similarity_score)
                   /\ job[w].gemini_calls = 1
                   /\ job[w].verdict = "save"
          /\ (pc[w] = "description" /\ Exists(job[w].job_url)
                /\ ~MissingDescription(job[w].description))
                => /\ pc'[w] = "similarity"
                   /\ job'[w].queries = 0
          /\ (pc[w] = "similarity" /\ Exists(job[w].job_url))
                => job'[w].embed_calls = 1 /\ job'[w].queries = 0
          /\ (pc[w] = "gate" /\ Exists(job[w].job_url))
                => job'[w].gemini_calls = 1 /\ job'[w].queries = 0
      ]_vars

\* A posting whose job_url the table held was scored, gated and then
\* skipped as a duplicate by the existence query.
C21_Witness ==
    /\ job[SCRIPT].embed_calls = 1
    /\ job[SCRIPT].gemini_calls = 1
    /\ job[SCRIPT].verdict = "save"
    /\ job[SCRIPT].queries = 1
    /\ job[SCRIPT].inserts = 0
    /\ ~job[SCRIPT].db_error
    /\ job[SCRIPT].stage = "Skipped"
    /\ Exists(job[SCRIPT].job_url)

====
